---- MODULE Spec2Model ----
(***************************************************************************)
(* Model of the StethApp model-maintenance scripts:                        *)
(*   check_model_versions.py      ("check")                                *)
(*   convert_model_compatible.py  ("convert")                              *)
(*   create_compatible_model.py   ("template")                             *)
(*   create_simple_model.py       ("simple")                               *)
(*   create_minimal_model.py      ("minimal")                              *)
(*   create_tf212_compatible.py   ("tf212")                                *)
(* Every script is a straight-line process; a run is started by            *)
(* StartScript, walks through the script's statements and ends either at   *)
(* pc = "done" or, on an exception no handler catches, at pc = "aborted".  *)
(* The TensorFlow library and the file system are the environment: every   *)
(* library call may raise, a loader returns any operator list.             *)
(***************************************************************************)
EXTENDS Integers, Sequences, FiniteSets, TLC

\* ---------------------------------------------------------------- bounds
MaxOps == 2       \* operator entries the loaders supply in one behaviour
MaxVersion == 13  \* highest operator schema version a loader reports
MaxRuns == 2      \* script runs in one behaviour

\* ------------------------------------------------------ program constants
FcLimit == 11         \* create_tf212_compatible.py: max_fc_version <= 11
FlaggedVersion == 12  \* check_model_versions.py: version == 12
Samples == 32000      \* Input(shape=(32000, 1)) / TensorSpec([1, 32000, 1])
Channels == 1
Classes == 3          \* Dense(3) / w1 of shape [1, 3]

Scripts == {"check", "convert", "template", "simple", "minimal", "tf212"}
Builders == {"simple", "minimal", "tf212"}

\* ------------------------------------------------------------ file paths
BEST == "assets/models/best_model.tflite"
MINIMAL == "assets/models/minimal_model.tflite"
COMPAT == "assets/models/best_model_compatible.tflite"
SIMPLE == "assets/models/simple_compatible_model.tflite"
TEMPLATE_PY == "create_compatible_model.py"
H5 == "your_original_model.h5"
Paths == {BEST, MINIMAL, COMPAT, SIMPLE, TEMPLATE_PY, H5}

\* The fixed output path of each artifact-building routine.
OutPath(s) ==
  CASE s = "simple" -> SIMPLE
    [] s = "minimal" -> MINIMAL
    [] s = "tf212" -> COMPAT
    [] s = "template" -> COMPAT
    [] s = "convert" -> TEMPLATE_PY
    [] OTHER -> BEST

\* --------------------------------------------------------- Python values
PyInt(n) == [t |-> "int", v |-> n]
PyStr(s) == [t |-> "str", v |-> s]
PyNone == [t |-> "none", v |-> 0]
IsInt(a) == a.t = "int"
\* Python ==: values of different types are unequal, never an error.
PyEq(a, b) == a.t = b.t /\ a.v = b.v
\* dict.get(key, default)
Get(d, key, default) == IF key \in DOMAIN d THEN d[key] ELSE default

FULLY_CONNECTED == PyStr("FULLY_CONNECTED")
Unknown == PyStr("Unknown")

\* What interpreter._get_ops_details() can return: a list of dicts, each
\* with an optional 'op_name' (str) and an optional 'version' (int >= 0).
OpNames == {FULLY_CONNECTED, PyStr("SOFTMAX")}
Versions == {PyInt(n) : n \in FcLimit..MaxVersion}
OpDicts ==
  UNION {{d \in [K -> OpNames \cup Versions] :
            /\ ("op_name" \in K => d["op_name"] \in OpNames)
            /\ ("version" \in K => d["version"] \in Versions)} :
         K \in SUBSET {"op_name", "version"}}
OpLists(n) == UNION {[1..m -> OpDicts] : m \in 0..n}

\* One printed line: a kind and up to two values.
Line(k, x, y) == [k |-> k, x |-> x, y |-> y]
Text(k) == Line(k, PyNone, PyNone)

VARIABLES
  script,   \* the script being run ("none" before the first run)
  pc,       \* position in the running script
  fs,       \* file system: path -> content
  pre,      \* the file system when the current run started
  out,      \* lines printed by the current run
  ops,      \* the list bound to ops / ops2
  idx,      \* number of entries the for loop has processed
  success,  \* the boolean flag returned by the script's function
  tflite,   \* declared input/output shape of tflite_model
  wrote,    \* <<script, path>>: the script opened the path for writing
  read,     \* <<script, path>>: the script opened the path for reading
  exc,      \* message of the exception being propagated ("" if none)
  runs,     \* runs started so far
  budget    \* operator entries the loaders may still supply

vars == <<script, pc, fs, pre, out, ops, idx, success, tflite, wrote, read,
          exc, runs, budget>>

NoShape == <<>>
NoModel == [in |-> NoShape, out |-> NoShape]

\* Before any run: the repository's own create_compatible_model.py exists;
\* the user's best_model.tflite, your_original_model.h5 and a previously
\* generated minimal_model.tflite may or may not.
Init ==
  /\ script = "none"
  /\ pc = "done"
  /\ fs \in {f \in [Paths -> {"absent", "orig"}] :
               /\ f[TEMPLATE_PY] = "orig"
               /\ f[COMPAT] = "absent"
               /\ f[SIMPLE] = "absent"}
  /\ pre = fs
  /\ out = <<>>
  /\ ops = <<>>
  /\ idx = 0
  /\ success = "unset"
  /\ tflite = NoModel
  /\ wrote = {}
  /\ read = {}
  /\ exc = ""
  /\ runs = 0
  /\ budget = MaxOps

Ended == pc \in {"done", "aborted"}

\* `python <script>.py`: a fresh process.
StartScript(s) ==
  /\ Ended
  /\ runs < MaxRuns
  /\ script' = s
  /\ pc' = s
  /\ pre' = fs
  /\ out' = <<>>
  /\ ops' = <<>>
  /\ idx' = 0
  /\ success' = "unset"
  /\ tflite' = NoModel
  /\ exc' = ""
  /\ runs' = runs + 1
  /\ UNCHANGED <<fs, wrote, read, budget>>

\* A file that tf.lite.Interpreter / load_model can possibly parse.
Loadable(p) == fs[p] \notin {"absent", "partial"}

\* An exception raised inside a try block: control moves to its handler.
Raise(handler, msg) == pc' = handler /\ exc' = msg
\* An exception raised outside every try block: traceback, process exits.
Abort(msg) == pc' = "aborted" /\ exc' = msg
Goto(l) == pc' = l /\ exc' = ""

\* =================================================== check_model_versions.py
BEST_NAME == PyStr("best_model.tflite")
MINIMAL_NAME == PyStr("minimal_model.tflite")

\* Lines 4-10: version banner and compatibility table.
CheckHeader ==
  /\ pc = "check"
  /\ out' = out \o <<Text("tf_version"), Text("compat_table"), Text("sep")>>
  /\ Goto("best_open")
  /\ UNCHANGED <<script, fs, pre, ops, idx, success, tflite, wrote, read,
                 runs, budget>>

\* Lines 13-22: Interpreter(model_path), allocate_tensors, input/output
\* details, shape lines.  Each call may raise; a missing file always does.
BestOpen ==
  /\ pc = "best_open"
  /\ read' = read \cup {<<"check", BEST>>}
  /\ \/ /\ Loadable(BEST)
        /\ out' = out \o <<Line("analyzing", BEST_NAME, PyNone),
                            Text("in_shape"), Text("out_shape")>>
        /\ Goto("best_ops")
     \/ \E stage \in {"load", "allocate", "details"} :
          /\ out' = Append(out, Line("analyzing", BEST_NAME, PyNone))
          /\ Raise("best_except", stage)
  /\ UNCHANGED <<script, fs, pre, ops, idx, success, tflite, wrote, runs,
                 budget>>

\* Lines 25-26: ops = interpreter._get_ops_details(); "Operations used:".
BestOps ==
  /\ pc = "best_ops"
  /\ \/ \E l \in OpLists(budget) :
          /\ ops' = l
          /\ budget' = budget - Len(l)
          /\ out' = Append(out, Text("ops_header"))
          /\ Goto("best_loop")
     \/ /\ Raise("best_except", "ops")
        /\ UNCHANGED <<ops, budget, out>>
  /\ idx' = 0
  /\ UNCHANGED <<script, fs, pre, success, tflite, wrote, read, runs>>

\* Lines 32-36: the verdict printed under one operator line.
BestFlag(op_name, version) ==
  IF PyEq(op_name, FULLY_CONNECTED) /\ PyEq(version, PyInt(FlaggedVersion))
  THEN <<Line("incompatible", op_name, version)>>
  ELSE IF PyEq(op_name, FULLY_CONNECTED)
       THEN <<Line("compatible", op_name, version)>>
       ELSE <<>>

\* Lines 28-30: the "- name (version v)" line of one entry.
OpLine(op) ==
  Line("op", Get(op, "op_name", Unknown), Get(op, "version", Unknown))

\* Variant of the loop that walks the list from its end (reversed(ops)).
BestLoop_Reversed ==
  /\ pc = "best_loop"
  /\ IF idx < Len(ops)
     THEN LET l == OpLine(ops[Len(ops) - idx])
          IN /\ out' = out \o <<l>> \o BestFlag(l.x, l.y)
             /\ idx' = idx + 1
             /\ Goto("best_loop")
     ELSE /\ Goto("sep2")
          /\ UNCHANGED <<out, idx>>
  /\ UNCHANGED <<script, fs, pre, ops, success, tflite, wrote, read, runs,
                 budget>>

\* Lines 27-36: one iteration of `for op in ops`, or the end of the loop.
BestLoop ==
  /\ pc = "best_loop"
  /\ IF idx < Len(ops)
     THEN LET l == OpLine(ops[idx + 1])
          IN /\ out' = out \o <<l>> \o BestFlag(l.x, l.y)
             /\ idx' = idx + 1
             /\ Goto("best_loop")
     ELSE /\ Goto("sep2")
          /\ UNCHANGED <<out, idx>>
  /\ UNCHANGED <<script, fs, pre, ops, success, tflite, wrote, read, runs,
                 budget>>

\* Variant of the handler that prints the diagnostic and re-raises.
BestExcept_Reraise ==
  /\ pc = "best_except"
  /\ out' = Append(out, Line("error", BEST_NAME, PyStr(exc)))
  /\ Abort(exc)
  /\ UNCHANGED <<script, fs, pre, ops, idx, success, tflite, wrote, read,
                 runs, budget>>

\* Lines 38-39: except Exception as e: print the diagnostic.
BestExcept ==
  /\ pc = "best_except"
  /\ out' = Append(out, Line("error", BEST_NAME, PyStr(exc)))
  /\ Goto("sep2")
  /\ UNCHANGED <<script, fs, pre, ops, idx, success, tflite, wrote, read,
                 runs, budget>>

\* Line 41: separator between the two analyses.
CheckSeparator ==
  /\ pc = "sep2"
  /\ out' = Append(out, Text("sep"))
  /\ Goto("min_open")
  /\ UNCHANGED <<script, fs, pre, ops, idx, success, tflite, wrote, read,
                 runs, budget>>

\* Lines 44-53: the same opening sequence for minimal_model.tflite.
MinOpen ==
  /\ pc = "min_open"
  /\ read' = read \cup {<<"check", MINIMAL>>}
  /\ \/ /\ Loadable(MINIMAL)
        /\ out' = out \o <<Line("analyzing", MINIMAL_NAME, PyNone),
                            Text("in_shape"), Text("out_shape")>>
        /\ Goto("min_ops")
     \/ \E stage \in {"load", "allocate", "details"} :
          /\ out' = Append(out, Line("analyzing", MINIMAL_NAME, PyNone))
          /\ Raise("min_except", stage)
  /\ UNCHANGED <<script, fs, pre, ops, idx, success, tflite, wrote, runs,
                 budget>>

\* Lines 55-56: ops2 = interpreter2._get_ops_details(); "Operations used:".
MinOps ==
  /\ pc = "min_ops"
  /\ \/ \E l \in OpLists(budget) :
          /\ ops' = l
          /\ budget' = budget - Len(l)
          /\ out' = Append(out, Text("ops_header"))
          /\ Goto("min_loop")
     \/ /\ Raise("min_except", "ops")
        /\ UNCHANGED <<ops, budget, out>>
  /\ idx' = 0
  /\ UNCHANGED <<script, fs, pre, success, tflite, wrote, read, runs>>

\* Lines 57-60: one iteration of `for op in ops2` (no verdict is printed).
MinLoop ==
  /\ pc = "min_loop"
  /\ IF idx < Len(ops)
     THEN /\ out' = Append(out, OpLine(ops[idx + 1]))
          /\ idx' = idx + 1
          /\ Goto("min_loop")
     ELSE /\ Goto("summary")
          /\ UNCHANGED <<out, idx>>
  /\ UNCHANGED <<script, fs, pre, ops, success, tflite, wrote, read, runs,
                 budget>>

\* Lines 62-63: except Exception as e: print the diagnostic.
MinExcept ==
  /\ pc = "min_except"
  /\ out' = Append(out, Line("error", MINIMAL_NAME, PyStr(exc)))
  /\ Goto("summary")
  /\ UNCHANGED <<script, fs, pre, ops, idx, success, tflite, wrote, read,
                 runs, budget>>

\* Lines 65-71: the SUMMARY block; the script ends.
CheckSummary ==
  /\ pc = "summary"
  /\ out' = out \o <<Text("sep"), Text("SUMMARY")>>
  /\ Goto("done")
  /\ UNCHANGED <<script, fs, pre, ops, idx, success, tflite, wrote, read,
                 runs, budget>>

NextCheck ==
  \/ CheckHeader \/ BestOpen \/ BestOps \/ BestLoop \/ BestExcept
  \/ CheckSeparator \/ MinOpen \/ MinOps \/ MinLoop \/ MinExcept
  \/ CheckSummary

\* Runs of check_model_versions.py only.
NextInspect == StartScript("check") \/ NextCheck
SpecInspect == Init /\ [][NextInspect]_vars
FairInspect == SpecInspect /\ WF_vars(NextInspect)

\* ============================================================ file writes
\* `with open(p, "w"/"wb") as f: f.write(data)` followed by the lines printed
\* after it.  open() may raise before touching the file; write() may raise
\* after open() has truncated it; otherwise the file holds the script's data.
Save(s, p, lines, next, handler) ==
  \/ /\ fs' = [fs EXCEPT ![p] = s]
     /\ wrote' = wrote \cup {<<s, p>>}
     /\ out' = out \o lines
     /\ Goto(next)
  \/ /\ Raise(handler, "open")
     /\ UNCHANGED <<fs, wrote, out>>
  \/ /\ fs' = [fs EXCEPT ![p] = "partial"]
     /\ wrote' = wrote \cup {<<s, p>>}
     /\ Raise(handler, "write")
     /\ UNCHANGED out

\* ============================================ convert_model_compatible.py
\* Variant of the try body that reports success once the model has loaded.
ConvertLoad_ReturnsTrue ==
  /\ pc = "convert"
  /\ read' = read \cup {<<"convert", BEST>>}
  /\ \/ /\ Loadable(BEST)
        /\ out' = out \o <<Text("original_details"), Text("in_shape"),
                            Text("out_shape"), Text("cannot_convert")>>
        /\ success' = "True"
        /\ Goto("v_main")
     \/ \E stage \in {"load", "allocate", "details"} :
          /\ Raise("v_except", stage)
          /\ UNCHANGED <<out, success>>
  /\ UNCHANGED <<script, fs, pre, ops, idx, tflite, wrote, runs, budget>>

\* Lines 88, 16-36: the try body of convert_with_compatibility_flags.  When
\* nothing raises it prints the details and the "Cannot directly convert"
\* message and returns False.
ConvertLoad ==
  /\ pc = "convert"
  /\ read' = read \cup {<<"convert", BEST>>}
  /\ \/ /\ Loadable(BEST)
        /\ out' = out \o <<Text("original_details"), Text("in_shape"),
                            Text("out_shape"), Text("cannot_convert")>>
        /\ success' = "False"
        /\ Goto("v_main")
     \/ \E stage \in {"load", "allocate", "details"} :
          /\ Raise("v_except", stage)
          /\ UNCHANGED <<out, success>>
  /\ UNCHANGED <<script, fs, pre, ops, idx, tflite, wrote, runs, budget>>

\* Lines 38-40: except Exception as e: print(f"Error: {e}"); return False.
ConvertExcept ==
  /\ pc = "v_except"
  /\ out' = Append(out, Line("error", PyStr("convert"), PyStr(exc)))
  /\ success' = "False"
  /\ Goto("v_main")
  /\ UNCHANGED <<script, fs, pre, ops, idx, tflite, wrote, read, runs,
                 budget>>

\* Lines 90-92: if not success: create_compatible_converter_script().
ConvertMain ==
  /\ pc = "v_main"
  /\ Goto(IF success # "True" THEN "v_template" ELSE "done")
  /\ UNCHANGED <<script, fs, pre, out, ops, idx, success, tflite, wrote,
                 read, runs, budget>>

\* Lines 80-84: write the template to create_compatible_model.py; no try
\* block encloses the write.
WriteTemplate ==
  /\ pc = "v_template"
  /\ Save("convert", TEMPLATE_PY, <<Text("template_created")>>,
          "v_solution", "aborted")
  /\ UNCHANGED <<script, pre, ops, idx, success, tflite, read, runs, budget>>

\* Lines 94-99: the SOLUTION instructions.
PrintSolution ==
  /\ pc = "v_solution"
  /\ out' = Append(out, Text("SOLUTION"))
  /\ Goto("done")
  /\ UNCHANGED <<script, fs, pre, ops, idx, success, tflite, wrote, read,
                 runs, budget>>

NextConvert ==
  ConvertLoad \/ ConvertExcept \/ ConvertMain \/ WriteTemplate
  \/ PrintSolution

\* ============================================== create_compatible_model.py
\* Lines 5-18: load_model("your_original_model.h5"), converter set-up; all
\* of it before the try block.
TemplateLoad ==
  /\ pc = "template"
  /\ read' = read \cup {<<"template", H5>>}
  /\ \/ /\ Loadable(H5)
        /\ Goto("t_convert")
     \/ \E stage \in {"load_model", "from_keras_model"} : Abort(stage)
  /\ UNCHANGED <<script, fs, pre, out, ops, idx, success, tflite, wrote,
                 runs, budget>>

\* Lines 21-22: tflite_model = converter.convert().
TemplateConvert ==
  /\ pc = "t_convert"
  /\ \/ Goto("t_save")
     \/ Raise("t_except", "convert")
  /\ UNCHANGED <<script, fs, pre, out, ops, idx, success, tflite, wrote,
                 read, runs, budget>>

\* Lines 25-28: save best_model_compatible.tflite, report.
TemplateSave ==
  /\ pc = "t_save"
  /\ Save("template", COMPAT, <<Text("created")>>, "done", "t_except")
  /\ UNCHANGED <<script, pre, ops, idx, success, tflite, read, runs, budget>>

\* Lines 30-31: except Exception as e: print(f"Conversion failed: {e}").
TemplateExcept ==
  /\ pc = "t_except"
  /\ out' = Append(out, Line("error", PyStr("template"), PyStr(exc)))
  /\ Goto("done")
  /\ UNCHANGED <<script, fs, pre, ops, idx, success, tflite, wrote, read,
                 runs, budget>>

NextTemplate == TemplateLoad \/ TemplateConvert \/ TemplateSave
                \/ TemplateExcept

\* ================================================================= shapes
\* The batch dimension Keras leaves open (None).
NoneDim == -1

RECURSIVE Product(_)
Product(s) == IF s = <<>> THEN 1 ELSE Head(s) * Product(Tail(s))

\* tf.keras.Input(shape=...): the per-sample shape behind an open batch.
KerasInput(shape) == <<NoneDim>> \o shape
\* GlobalAveragePooling1D: (batch, steps, features) -> (batch, features).
GlobalAveragePooling1D(s) == <<s[1], s[3]>>
\* Dense(units): replaces the last dimension.
Dense(units, s) == [s EXCEPT ![Len(s)] = units]
Dropout(s) == s
\* tf.reduce_mean(x, axis): drops dimension `axis` (counted from 0).
ReduceMean(s, axis) ==
  [i \in 1..(Len(s) - 1) |-> IF i <= axis THEN s[i] ELSE s[i + 1]]
\* tf.reshape(x, target): legal only when the element counts agree.
ReshapeOk(s, target) == Product(s) = Product(target)
\* tf.matmul(a, b) of two matrices.
MatMulOk(a, b) == Len(a) = 2 /\ Len(b) = 2 /\ a[2] = b[1]
MatMul(a, b) == <<a[1], b[2]>>
Softmax(s) == s

\* The 'shape' the TFLite interpreter reports: an open batch becomes 1.
Concrete(s) == [i \in DOMAIN s |-> IF s[i] = NoneDim THEN 1 ELSE s[i]]
TfliteOf(m) == [in |-> Concrete(m.in), out |-> Concrete(m.out)]

\* create_simple_model.py lines 14-20.
SimpleModel ==
  LET inputs == KerasInput(<<Samples, Channels>>)
      x1 == GlobalAveragePooling1D(inputs)
      x2 == Dense(64, x1)
      x3 == Dense(32, x2)
      outputs == Dense(Classes, x3)
  IN [in |-> inputs, out |-> outputs]

\* Variant of the model without the 3-unit predictions layer.
Tf212Model_NoPredictions ==
  LET inputs == KerasInput(<<Samples, Channels>>)
      x1 == GlobalAveragePooling1D(inputs)
      x2 == Dropout(Dense(128, x1))
      x3 == Dropout(Dense(64, x2))
  IN [in |-> inputs, out |-> x3]

\* create_tf212_compatible.py lines 18-28.
Tf212Model ==
  LET inputs == KerasInput(<<Samples, Channels>>)
      x1 == GlobalAveragePooling1D(inputs)
      x2 == Dropout(Dense(128, x1))
      x3 == Dropout(Dense(64, x2))
      outputs == Dense(Classes, x3)
  IN [in |-> inputs, out |-> outputs]

\* create_minimal_model.py lines 15-34: simple_model traced on
\* TensorSpec(shape=[1, 32000, 1]).
MinimalSpec == <<1, Samples, Channels>>
W1Shape == <<1, Classes>>
MinimalMean == ReduceMean(MinimalSpec, 1)
MinimalTraceOk ==
  /\ ReshapeOk(MinimalMean, <<1, 1>>)
  /\ MatMulOk(<<1, 1>>, W1Shape)
MinimalModel ==
  [in |-> MinimalSpec, out |-> Softmax(MatMul(<<1, 1>>, W1Shape))]

\* ================================================== create_simple_model.py
\* Lines 69-71, 14-40: banner, model construction, compile, summary and
\* converter set-up; all of it before the try block.
SimpleBuild ==
  /\ pc = "simple"
  /\ \/ /\ out' = out \o <<Text("tf_version"), Text("model_summary")>>
        /\ Goto("s_convert")
     \/ \E stage \in {"model", "compile", "from_keras_model"} :
          /\ out' = Append(out, Text("tf_version"))
          /\ Abort(stage)
  /\ UNCHANGED <<script, fs, pre, ops, idx, success, tflite, wrote, read,
                 runs, budget>>

\* Lines 42-43: tflite_model = converter.convert().
SimpleConvert ==
  /\ pc = "s_convert"
  /\ \/ /\ tflite' = TfliteOf(SimpleModel)
        /\ Goto("s_save")
     \/ /\ Raise("s_except", "convert")
        /\ UNCHANGED tflite
  /\ UNCHANGED <<script, fs, pre, out, ops, idx, success, wrote, read, runs,
                 budget>>

\* Variant of the save that writes to the other builder's output path.
SimpleSave_WrongPath ==
  /\ pc = "s_save"
  /\ Save("simple", COMPAT, <<Text("created"), Text("file")>>, "s_test",
          "s_except")
  /\ UNCHANGED <<script, pre, ops, idx, success, tflite, read, runs, budget>>

\* Lines 46-50: save simple_compatible_model.tflite, report.
SimpleSave ==
  /\ pc = "s_save"
  /\ Save("simple", SIMPLE, <<Text("created"), Text("file")>>, "s_test",
          "s_except")
  /\ UNCHANGED <<script, pre, ops, idx, success, tflite, read, runs, budget>>

\* Lines 53-62: self-test of the converted model, then return True.
SimpleTest ==
  /\ pc = "s_test"
  /\ \/ /\ out' = out \o <<Text("in_shape"), Text("out_shape")>>
        /\ success' = "True"
        /\ Goto("s_main")
     \/ \E stage \in {"load", "allocate", "details"} :
          /\ Raise("s_except", stage)
          /\ UNCHANGED <<out, success>>
  /\ UNCHANGED <<script, fs, pre, ops, idx, tflite, wrote, read, runs,
                 budget>>

\* Lines 64-66: except Exception as e: print, return False.
SimpleExcept ==
  /\ pc = "s_except"
  /\ out' = Append(out, Line("error", PyStr("simple"), PyStr(exc)))
  /\ success' = "False"
  /\ Goto("s_main")
  /\ UNCHANGED <<script, fs, pre, ops, idx, tflite, wrote, read, runs,
                 budget>>

\* Lines 72-78: if success: NEXT STEPS.
SimpleMain ==
  /\ pc = "s_main"
  /\ out' = IF success = "True" THEN Append(out, Text("NEXT_STEPS")) ELSE out
  /\ Goto("done")
  /\ UNCHANGED <<script, fs, pre, ops, idx, success, tflite, wrote, read,
                 runs, budget>>

NextSimple ==
  SimpleBuild \/ SimpleConvert \/ SimpleSave \/ SimpleTest \/ SimpleExcept
  \/ SimpleMain

\* ================================================= create_minimal_model.py
\* Lines 73-75, 15-38: banner, tf.function, get_concrete_function and
\* converter set-up; all of it before the try block.
MinimalBuild ==
  /\ pc = "minimal"
  /\ out' = Append(out, Text("tf_version"))
  /\ \/ /\ MinimalTraceOk
        /\ Goto("m_convert")
     \/ \E stage \in {"get_concrete_function", "from_concrete_functions"} :
          Abort(stage)
  /\ UNCHANGED <<script, fs, pre, ops, idx, success, tflite, wrote, read,
                 runs, budget>>

\* Lines 40-41: tflite_model = converter.convert().
MinimalConvert ==
  /\ pc = "m_convert"
  /\ \/ /\ tflite' = TfliteOf(MinimalModel)
        /\ Goto("m_save")
     \/ /\ Raise("m_except", "convert")
        /\ UNCHANGED tflite
  /\ UNCHANGED <<script, fs, pre, out, ops, idx, success, wrote, read, runs,
                 budget>>

\* Lines 44-47: save minimal_model.tflite, report.
MinimalSave ==
  /\ pc = "m_save"
  /\ Save("minimal", MINIMAL, <<Text("created")>>, "m_test", "m_except")
  /\ UNCHANGED <<script, pre, ops, idx, success, tflite, read, runs, budget>>

\* Lines 50-66: self-test (load, allocate, details, set_tensor, invoke,
\* get_tensor), then return True.
MinimalTest ==
  /\ pc = "m_test"
  /\ \/ /\ out' = out \o <<Text("in_shape"), Text("out_shape"),
                            Text("test_output")>>
        /\ success' = "True"
        /\ Goto("m_main")
     \/ \E stage \in {"load", "allocate", "details"} :
          /\ Raise("m_except", stage)
          /\ UNCHANGED <<out, success>>
     \/ /\ out' = out \o <<Text("in_shape"), Text("out_shape")>>
        /\ Raise("m_except", "invoke")
        /\ UNCHANGED success
  /\ UNCHANGED <<script, fs, pre, ops, idx, tflite, wrote, read, runs,
                 budget>>

\* Lines 68-70: except Exception as e: print, return False.
MinimalExcept ==
  /\ pc = "m_except"
  /\ out' = Append(out, Line("error", PyStr("minimal"), PyStr(exc)))
  /\ success' = "False"
  /\ Goto("m_main")
  /\ UNCHANGED <<script, fs, pre, ops, idx, tflite, wrote, read, runs,
                 budget>>

\* Lines 76-81: if success: SUCCESS banner.
MinimalMain ==
  /\ pc = "m_main"
  /\ out' = IF success = "True" THEN Append(out, Text("SUCCESS")) ELSE out
  /\ Goto("done")
  /\ UNCHANGED <<script, fs, pre, ops, idx, success, tflite, wrote, read,
                 runs, budget>>

NextMinimal ==
  MinimalBuild \/ MinimalConvert \/ MinimalSave \/ MinimalTest
  \/ MinimalExcept \/ MinimalMain

\* =============================================== create_tf212_compatible.py
\* Lines 100-102, 18-52: banner, model construction, compile, summary and
\* converter set-up; all of it before the try block.
Tf212Build ==
  /\ pc = "tf212"
  /\ \/ /\ out' = out \o <<Text("tf_version"), Text("model_summary")>>
        /\ Goto("f_convert")
     \/ \E stage \in {"model", "compile", "from_keras_model"} :
          /\ out' = Append(out, Text("tf_version"))
          /\ Abort(stage)
  /\ UNCHANGED <<script, fs, pre, ops, idx, success, tflite, wrote, read,
                 runs, budget>>

\* Lines 54-56: "Converting model..."; tflite_model = converter.convert().
Tf212Convert ==
  /\ pc = "f_convert"
  /\ out' = Append(out, Text("converting"))
  /\ \/ /\ tflite' = TfliteOf(Tf212Model)
        /\ Goto("f_save")
     \/ /\ Raise("f_except", "convert")
        /\ UNCHANGED tflite
  /\ UNCHANGED <<script, fs, pre, ops, idx, success, wrote, read, runs,
                 budget>>

\* Lines 59-63: save best_model_compatible.tflite, report.
Tf212Save ==
  /\ pc = "f_save"
  /\ Save("tf212", COMPAT, <<Text("saved")>>, "f_test", "f_except")
  /\ UNCHANGED <<script, pre, ops, idx, success, tflite, read, runs, budget>>

\* Lines 66-73: self-test of the converted model.
Tf212Test ==
  /\ pc = "f_test"
  /\ \/ /\ out' = out \o <<Text("in_shape"), Text("out_shape")>>
        /\ Goto("f_ops")
     \/ \E stage \in {"load", "allocate", "details"} :
          /\ Raise("f_except", stage)
          /\ UNCHANGED out
  /\ UNCHANGED <<script, fs, pre, ops, idx, success, tflite, wrote, read,
                 runs, budget>>

\* Lines 76-78: ops = interpreter._get_ops_details(); "Operations used:";
\* fully_connected_versions = [].
Tf212Ops ==
  /\ pc = "f_ops"
  /\ \/ \E l \in OpLists(budget) :
          /\ ops' = l
          /\ budget' = budget - Len(l)
          /\ out' = Append(out, Text("ops_header"))
          /\ Goto("f_loop")
     \/ /\ Raise("f_except", "ops")
        /\ UNCHANGED <<ops, budget, out>>
  /\ idx' = 0
  /\ UNCHANGED <<script, fs, pre, success, tflite, wrote, read, runs>>

\* Lines 79-84: one iteration of `for op in ops`, or the end of the loop.
Tf212Loop ==
  /\ pc = "f_loop"
  /\ IF idx < Len(ops)
     THEN /\ out' = Append(out, OpLine(ops[idx + 1]))
          /\ idx' = idx + 1
          /\ Goto("f_loop")
     ELSE /\ Goto("f_verdict")
          /\ UNCHANGED <<out, idx>>
  /\ UNCHANGED <<script, fs, pre, ops, success, tflite, wrote, read, runs,
                 budget>>

\* Lines 83-84: fully_connected_versions after the loop has run over l: the
\* versions of the FULLY_CONNECTED entries, in order.
RECURSIVE FcVersions(_)
FcVersions(l) ==
  IF l = <<>> THEN <<>>
  ELSE LET op_name == Get(Head(l), "op_name", Unknown)
           version == Get(Head(l), "version", Unknown)
       IN (IF PyEq(op_name, FULLY_CONNECTED) THEN <<version>> ELSE <<>>)
          \o FcVersions(Tail(l))

\* max() of a non-empty list of ints.
Max(S) == CHOOSE m \in S : \A n \in S : n <= m

\* Lines 86-91: the verdict on fully_connected_versions.  max() or <= on a
\* list holding the str 'Unknown' raises TypeError.
Tf212Verdict(fcv) ==
  IF fcv = <<>> THEN "none"
  ELSE IF \E i \in DOMAIN fcv : ~IsInt(fcv[i]) THEN "TypeError"
  ELSE IF Max({fcv[i].v : i \in DOMAIN fcv}) <= FcLimit THEN "compatible"
  ELSE "incompatible"

\* Lines 86-93: print the verdict, return True.
Tf212Check ==
  /\ pc = "f_verdict"
  /\ LET verdict == Tf212Verdict(FcVersions(ops))
     IN IF verdict = "TypeError"
        THEN /\ Raise("f_except", "TypeError")
             /\ UNCHANGED <<out, success>>
        ELSE /\ out' = IF verdict = "none" THEN out
                       ELSE Append(out, Text(verdict))
             /\ success' = "True"
             /\ Goto("f_main")
  /\ UNCHANGED <<script, fs, pre, ops, idx, tflite, wrote, read, runs,
                 budget>>

\* Lines 95-97: except Exception as e: print, return False.
Tf212Except ==
  /\ pc = "f_except"
  /\ out' = Append(out, Line("error", PyStr("tf212"), PyStr(exc)))
  /\ success' = "False"
  /\ Goto("f_main")
  /\ UNCHANGED <<script, fs, pre, ops, idx, tflite, wrote, read, runs,
                 budget>>

\* Lines 103-110: SUCCESS banner or "Failed to create compatible model".
Tf212Main ==
  /\ pc = "f_main"
  /\ out' = Append(out, Text(IF success = "True" THEN "SUCCESS" ELSE "FAILED"))
  /\ Goto("done")
  /\ UNCHANGED <<script, fs, pre, ops, idx, success, tflite, wrote, read,
                 runs, budget>>

NextTf212 ==
  Tf212Build \/ Tf212Convert \/ Tf212Save \/ Tf212Test \/ Tf212Ops
  \/ Tf212Loop \/ Tf212Check \/ Tf212Except \/ Tf212Main

\* ========================================================== specifications
Start == \E s \in Scripts : StartScript(s)

Next ==
  \/ Start
  \/ NextCheck
  \/ NextConvert
  \/ NextTemplate
  \/ NextSimple
  \/ NextMinimal
  \/ NextTf212

\* The scripts run one after another, in any order.
Spec == Init /\ [][Next]_vars

\* ================================================================ properties
\* Number of diagnostic lines the current run printed for an artifact.
ErrCount(name) ==
  Cardinality({i \in DOMAIN out : out[i].k = "error" /\ out[i].x = name})
Printed(k) == \E i \in DOMAIN out : out[i].k = k
InCheck == script = "check"

\* C1: in check_model_versions.py a failure while opening or enumerating an
\* artifact is never left unhandled, leads to exactly one diagnostic line for
\* that artifact, after which the next artifact is analysed and the SUMMARY
\* block is printed; every run of the script reaches its end.
C1_GracefulInspection ==
  /\ [](InCheck => /\ pc # "aborted"
                   /\ ErrCount(BEST_NAME) <= 1
                   /\ ErrCount(MINIMAL_NAME) <= 1)
  /\ [](InCheck /\ pc \in {"best_except", "min_except"} => exc # "")
  /\ (InCheck /\ pc = "best_except" /\ ErrCount(BEST_NAME) = 0)
       ~> (InCheck /\ pc = "min_open" /\ ErrCount(BEST_NAME) = 1)
  /\ (InCheck /\ pc = "min_except" /\ ErrCount(MINIMAL_NAME) = 0)
       ~> (InCheck /\ pc = "done" /\ ErrCount(MINIMAL_NAME) = 1)
  /\ (InCheck /\ pc = "min_open")
       ~> (InCheck /\ pc = "done" /\ out[Len(out)] = Text("SUMMARY"))
  /\ (InCheck /\ pc = "check") ~> (InCheck /\ pc = "done")

\* C1 witness: a run in which both artifacts failed has ended with one
\* diagnostic each and the SUMMARY block.
C1_Witness ==
  /\ InCheck /\ pc = "done"
  /\ ErrCount(BEST_NAME) = 1
  /\ ErrCount(MINIMAL_NAME) = 1
  /\ out[Len(out)] = Text("SUMMARY")

\* The operator lines of the loop that is running: those printed after the
\* last "Operations used:" line.
LoopLines ==
  LET h == CHOOSE i \in DOMAIN out :
             /\ out[i].k = "ops_header"
             /\ \A j \in DOMAIN out : out[j].k = "ops_header" => j <= i
  IN SelectSeq(SubSeq(out, h + 1, Len(out)), LAMBDA l : l.k = "op")
InInspectLoop == InCheck /\ pc \in {"best_loop", "min_loop"}

\* C2 as claimed: the inspection loops print one line per entry, in the
\* loader's order, and every printed version is a non-negative integer, also
\* for records without a 'version' key.
C2_Claimed ==
  InInspectLoop =>
    /\ Len(LoopLines) = idx
    /\ \A i \in 1..idx :
         /\ "op_name" \in DOMAIN ops[i] => LoopLines[i].x = ops[i]["op_name"]
         /\ "version" \in DOMAIN ops[i] => LoopLines[i].y = ops[i]["version"]
         /\ IsInt(LoopLines[i].y) /\ LoopLines[i].y.v >= 0

\* C2 amended: the inspection loops print one line per entry, in the
\* loader's order; the printed version is the record's non-negative integer
\* version when the record has a 'version' key and the text 'Unknown' when it
\* has none, and likewise the printed name is 'Unknown' without 'op_name'.
C2_OrderAndVersions ==
  InInspectLoop =>
    /\ Len(LoopLines) = idx
    /\ \A i \in 1..idx :
         /\ "op_name" \in DOMAIN ops[i] => LoopLines[i].x = ops[i]["op_name"]
         /\ "op_name" \notin DOMAIN ops[i] => LoopLines[i].x = Unknown
         /\ "version" \in DOMAIN ops[i] =>
              /\ LoopLines[i].y = ops[i]["version"]
              /\ IsInt(LoopLines[i].y) /\ LoopLines[i].y.v >= 0
         /\ "version" \notin DOMAIN ops[i] => LoopLines[i].y = Unknown

\* C2 witness: a loop has printed two different entries, the second of them
\* a record without a 'version' key.
C2_Witness ==
  /\ InInspectLoop
  /\ idx = 2
  /\ ops[1] # ops[2]
  /\ "version" \in DOMAIN ops[1]
  /\ "version" \notin DOMAIN ops[2]
  /\ Len(LoopLines) = 2

\* C3 as claimed: every FULLY_CONNECTED line of the report with a version
\* above the supported limit (v11) is followed by an INCOMPATIBLE flag line.
C3_Claimed ==
  InCheck =>
    \A i \in DOMAIN out :
      (/\ out[i].k = "op"
       /\ PyEq(out[i].x, FULLY_CONNECTED)
       /\ IsInt(out[i].y)
       /\ out[i].y.v > FcLimit)
      => /\ i < Len(out)
         /\ out[i + 1].k = "incompatible"

\* C4 as claimed: no run of any script ends with an unhandled failure.
C4_Claimed == pc # "aborted"

C6_DeclaredShapes ==
  /\ script \in Builders /\ tflite # NoModel =>
       /\ tflite.in = <<1, 32000, 1>>
       /\ tflite.out = <<1, 3>>
  /\ script \in Builders /\ fs[OutPath(script)] # pre[OutPath(script)] =>
       tflite # NoModel
  /\ script = "minimal" /\ pc # "minimal" /\ pc # "aborted" =>
       /\ MinimalMean = <<1, 1>>
       /\ MinimalTraceOk

\* C6 witness: create_tf212_compatible.py has saved its artifact and passed
\* the self-test.
C6_Witness ==
  /\ script = "tf212" /\ success = "True"
  /\ fs[COMPAT] = "tf212"
  /\ tflite.out = <<1, 3>>

Writers(p) == {s \in Scripts : <<s, p>> \in wrote}
Readers(p) == {s \in Scripts : <<s, p>> \in read}

\* C7 as claimed: every path has at most one writing script, no script
\* reads a path another script writes, and no script writes a source file of
\* the repository.
C7_Claimed ==
  /\ \A p \in Paths : Cardinality(Writers(p)) <= 1
  /\ \A p \in Paths : \A r \in Readers(p) : Writers(p) \subseteq {r}
  /\ Writers(TEMPLATE_PY) = {}

\* C7 amended: paths are shared in exactly three places: both
\* create_tf212_compatible.py and create_compatible_model.py write
\* best_model_compatible.tflite, convert_model_compatible.py overwrites the
\* repository's create_compatible_model.py, and check_model_versions.py
\* reads the minimal_model.tflite that create_minimal_model.py writes.
\* Every other path has at most one writer and no reader besides it, the
\* two input files are never written, and a run changes no file but the
\* running script's own output path.
C7_SharedPaths ==
  /\ Writers(COMPAT) \subseteq {"tf212", "template"}
  /\ Writers(TEMPLATE_PY) \subseteq {"convert"}
  /\ Writers(MINIMAL) \subseteq {"minimal"}
  /\ Writers(SIMPLE) \subseteq {"simple"}
  /\ Writers(BEST) = {} /\ Writers(H5) = {}
  /\ \A p \in Paths : \A r \in Readers(p) :
       ~(Writers(p) \subseteq {r}) => r = "check" /\ p = MINIMAL
  /\ fs[BEST] = pre[BEST] /\ fs[H5] = pre[H5]
  /\ \A p \in Paths : fs[p] # pre[p] => p = OutPath(script)

\* C7 witness: best_model_compatible.tflite has been written by both of its
\* writers, the second overwriting the first.
C7_Witness ==
  /\ Writers(COMPAT) = {"tf212", "template"}
  /\ pre[COMPAT] # "absent"
  /\ fs[COMPAT] # pre[COMPAT]

\* C8 as claimed: when create_compatible_model returns True, every
\* FULLY_CONNECTED operator of the saved artifact has version at most 11.
C8_Claimed ==
  script = "tf212" /\ success = "True" =>
    \A i \in DOMAIN ops :
      PyEq(Get(ops[i], "op_name", Unknown), FULLY_CONNECTED) =>
        /\ IsInt(Get(ops[i], "version", Unknown))
        /\ Get(ops[i], "version", Unknown).v <= FcLimit

\* C9 as claimed: a building routine that returns False has left the file at
\* its output path as it was before the call.
C9_Claimed ==
  script \in Builders /\ success = "False" =>
    fs[OutPath(script)] = pre[OutPath(script)]

\* C10 as claimed: on every operator list with integer versions,
\* create_tf212_compatible.py prints INCOMPATIBLE exactly when the best_model
\* loop of check_model_versions.py flags some entry INCOMPATIBLE, and neither
\* prints a verdict when the list has no FULLY_CONNECTED entry.
BestLoopFlags(l) ==
  {BestFlag(OpLine(l[i]).x, OpLine(l[i]).y) : i \in DOMAIN l} \ {<<>>}
C10_Claimed ==
  (/\ script = "tf212"
   /\ success = "True"
   /\ \A i \in DOMAIN ops : "version" \in DOMAIN ops[i])
  => /\ Printed("incompatible")
          <=> (\E f \in BestLoopFlags(ops) : f[1].k = "incompatible")
     /\ FcVersions(ops) = <<>> =>
          /\ ~Printed("incompatible") /\ ~Printed("compatible")
          /\ BestLoopFlags(ops) = {}

====
